---- MODULE Spec2Model ----
(***************************************************************************)
(* Model of src/main.py: a FastAPI gateway that turns three REST routes    *)
(* (stats, recent-transactions, search) into sequences of JSON-RPC calls   *)
(* against a Solana endpoint.  One request is in progress at a time        *)
(* (requests share no state); every upstream call is one step whose        *)
(* response is chosen by the environment.                                   *)
(***************************************************************************)
EXTENDS Integers, Sequences, FiniteSets, TLC

VARIABLES
    upstream,   \* which responses the endpoint may give: "conformant" | "arbitrary"
    route,      \* handler in progress: "idle" | "stats" | "recent" | "search"
    pc,         \* position inside the handler (the next rpc_call), or "done"
    frame,      \* the handler's arguments and local variables
    calls,      \* RPC methods issued so far by this request, in order
    last,       \* the upstream response to the most recent rpc_call
    status,     \* HTTP status of the finished request (0 while running)
    response,   \* JSON payload of the finished request
    raw,        \* labeler harness: the record given to _program_label
    label       \* labeler harness: what _program_label returned

vars == <<upstream, route, pc, frame, calls, last, status, response, raw, label>>

----------------------------------------------------------------------------
(* Bounds of the model.                                                    *)

MaxSamples == 2      \* performance samples in one getRecentPerformanceSamples result
MaxTx == 2           \* numTransactions of one sample
MaxSecs == 4         \* samplePeriodSecs of one sample
MaxValidators == 1   \* entries of each vote-account list
MaxHeight == 2       \* block heights returned by getBlockHeight
MaxListed == 3       \* entries of a getSignaturesForAddress result
MaxLimit == 2        \* the limit query parameter (1..20 in the code)
MaxBlockTx == 2      \* transactions of a block
MaxInstr == 2        \* instructions of a message given to the labeler

(* Constants of the program.                                               *)

SigMinLen == 80
SigMaxLen == 100
LAMPORTS_PER_SOL == 1000000000
\* sys.int_info.default_max_str_digits: the longest digit string int() converts
MaxStrDigits == 4300
\* bits of the significand of a Python float
MantissaBits == 53

----------------------------------------------------------------------------
(* JSON values as Python sees them after r.json(): tagged records.         *)

Null == [kind |-> "null"]
Num(n) == [kind |-> "num", val |-> n]
Str(s) == [kind |-> "str", val |-> s]
Arr(s) == [kind |-> "arr", val |-> s]
Obj(f) == [kind |-> "obj", val |-> f]
\* A float result n/den kept exact (tps in hundredths, SOL amounts in lamports/1e9).
Frac(n, d) == [kind |-> "frac", val |-> n, den |-> d]
\* A Python int of arbitrary size: its sign and the values of its decimal
\* digits, most significant first, without leading zeros.
BigInt(neg, digits) == [kind |-> "int", neg |-> neg, val |-> digits]
Bool(b) == [kind |-> "bool", val |-> b]

EmptyObj == Obj(<<>>)
EmptyArr == Arr(<<>>)

\* A key that is missing from an object (used only to build objects).
Absent == [kind |-> "absent"]
Opt(k, v) == IF v = Absent THEN <<>> ELSE k :> v

\* bool(v)
Truthy(v) ==
    CASE v.kind = "null" -> FALSE
      [] v.kind = "num"  -> v.val # 0
      [] v.kind = "str"  -> v.val # ""
      [] v.kind = "arr"  -> Len(v.val) > 0
      [] v.kind = "obj"  -> DOMAIN v.val # {}

\* d.get(key, default) on a dict d
Get(d, key, default) == IF key \in DOMAIN d.val THEN d.val[key] ELSE default

\* a or b
Or(a, b) == IF Truthy(a) THEN a ELSE b

----------------------------------------------------------------------------
(* Outcome of a Python call: a value, an HTTPException, or any other       *)
(* exception (which no handler catches: FastAPI answers 500).              *)

Ret(v) == [exc |-> "none", code |-> 200, val |-> v]
HTTPException(code) == [exc |-> "HTTPException", code |-> code, val |-> Null]
Unhandled == [exc |-> "Exception", code |-> 500, val |-> Null]

\* len(v)
PyLen(v) ==
    CASE v.kind = "arr" -> Ret(Num(Len(v.val)))
      [] v.kind = "obj" -> Ret(Num(Cardinality(DOMAIN v.val)))
      [] v.kind = "str" -> Ret(Num(Len(v.val)))
      [] OTHER -> Unhandled

----------------------------------------------------------------------------
(* rpc_call (lines 21-34).  An upstream response is the transport outcome  *)
(* and the body; the body is a JSON value or not JSON at all.              *)

NotJson == [kind |-> "notjson"]
Response(net, body) == [net |-> net, body |-> body]

rpc_call(resp) ==
    IF resp.net # "ok" THEN HTTPException(502)          \* requests.RequestException
    ELSE IF resp.body.kind # "obj" THEN Unhandled       \* r.json() / "in" / .get raise
    ELSE IF "error" \in DOMAIN resp.body.val THEN HTTPException(502)
    ELSE Ret(Get(resp.body, "result", Null))

\* Responses of a JSON-RPC 2.0 endpoint whose results range over V.
Failures ==
    { Response("ConnectionError", NotJson),
      Response("HTTPError", NotJson),
      Response("ok", Obj([id |-> Num(1), error |-> Obj([code |-> Num(1)])])) }
Results(V) ==
    { Response("ok", Obj([id |-> Num(1)])),
      Response("ok", Obj([id |-> Num(1), result |-> Null])) }
    \cup { Response("ok", Obj([id |-> Num(1), result |-> v])) : v \in V }
\* Bodies and results no JSON-RPC endpoint should send.
Malformed ==
    { Response("ok", NotJson),
      Response("ok", EmptyArr),
      Response("ok", Num(0)),
      Response("ok", Obj([id |-> Num(1), result |-> Str("x")])) }
Responses(V) ==
    Failures \cup Results(V) \cup (IF upstream = "arbitrary" THEN Malformed ELSE {})

----------------------------------------------------------------------------
(* _program_label (lines 117-130).  Every exception inside the try block   *)
(* is caught and gives "Transaction".                                      *)

LabelOfStatus(tx) ==
    LET meta == Get(tx, "meta", EmptyObj) IN
    IF meta.kind # "obj" THEN "Transaction"
    ELSE IF Get(meta, "err", Null) = Null THEN "Success" ELSE "Error"

_program_label_statusFirst(tx) ==
    IF tx.kind # "obj" THEN "Transaction" ELSE LabelOfStatus(tx)

_program_label(tx) ==
    IF tx.kind # "obj" THEN "Transaction"
    ELSE LET transaction == Get(tx, "transaction", EmptyObj) IN
    IF transaction.kind # "obj" THEN "Transaction"
    ELSE LET message == Get(transaction, "message", EmptyObj) IN
    IF message.kind # "obj" THEN "Transaction"
    ELSE LET instructions == Get(message, "instructions", EmptyArr) IN
    IF ~Truthy(instructions) THEN LabelOfStatus(tx)
    ELSE IF instructions.kind # "arr" THEN "Transaction"
    ELSE LET first == instructions.val[1] IN
    IF first.kind # "obj" THEN "Transaction"
    ELSE LET prog == Or(Get(first, "programId", Null), Get(first, "programIdIndex", Null)) IN
    IF prog.kind = "str" THEN prog.val ELSE LabelOfStatus(tx)

----------------------------------------------------------------------------
(* Strings of the search route are sequences of Unicode code points, so    *)
(* that str.strip, str.isdigit, len and int can be computed.  The character *)
(* classes are those of the Unicode 14.0 database of CPython 3.11.         *)

\* The zero of every run of decimal digits (category Nd); the nine code
\* points after a zero are its digits 1..9.
DecimalZeros ==
    { 48, 1632, 1776, 1984, 2406, 2534, 2662, 2790, 2918, 3046, 3174, 3302,
      3430, 3558, 3664, 3792, 3872, 4160, 4240, 6112, 6160, 6470, 6608, 6784,
      6800, 6992, 7088, 7232, 7248, 42528, 43216, 43264, 43472, 43504, 43600,
      44016, 65296, 66720, 68912, 69734, 69872, 69942, 70096, 70384, 70736,
      70864, 71248, 71360, 71472, 71904, 72016, 72784, 73040, 73120, 92768,
      92864, 93008, 120782, 120792, 120802, 120812, 120822, 123200, 123632,
      125264, 130032 }
\* The characters int() reads as digits (str.isdecimal).
DecimalChars == UNION { z..(z + 9) : z \in DecimalZeros }
\* The value of a decimal character.
DigitValue(c) == c - (CHOOSE z \in DecimalZeros : c \in z..(z + 9))
\* Digits that are not decimal (superscripts, subscripts, circled digits...):
\* str.isdigit accepts them and int() rejects them.
OtherDigitRanges ==
    { <<178, 179>>, <<185, 185>>, <<4969, 4977>>, <<6618, 6618>>, <<8304, 8304>>,
      <<8308, 8313>>, <<8320, 8329>>, <<9312, 9320>>, <<9332, 9340>>,
      <<9352, 9360>>, <<9450, 9450>>, <<9461, 9469>>, <<9471, 9471>>,
      <<10102, 10110>>, <<10112, 10120>>, <<10122, 10130>>, <<68160, 68163>>,
      <<69216, 69224>>, <<69714, 69722>>, <<127232, 127242>> }
\* The characters str.isdigit accepts.
DigitChars == DecimalChars \cup UNION { r[1]..r[2] : r \in OtherDigitRanges }
\* The characters str.strip() removes (str.isspace).
Whitespace ==
    (9..13) \cup (28..32) \cup {133, 160, 5760} \cup (8192..8202)
        \cup {8232, 8233, 8239, 8287, 12288}

Rep(c, n) == [i \in 1..n |-> c]

RECURSIVE LTrim(_, _)
LTrim(s, W) == IF s # <<>> /\ Head(s) \in W THEN LTrim(Tail(s), W) ELSE s
RECURSIVE RTrim(_, _)
RTrim(s, W) ==
    IF s # <<>> /\ s[Len(s)] \in W THEN RTrim(SubSeq(s, 1, Len(s) - 1), W) ELSE s
lstrip(s) == LTrim(s, Whitespace)
rstrip(s) == RTrim(s, Whitespace)
\* q.strip()
strip(s) == rstrip(lstrip(s))

\* q_stripped.isdigit()
isdigit(s) == s # <<>> /\ \A i \in 1..Len(s) : s[i] \in DigitChars

Plus == 43
Minus == 45
Underscore == 95
\* Decimal digits with single underscores between them.
IsDigitGroup(t) ==
    /\ t # <<>>
    /\ \A i \in 1..Len(t) : t[i] \in DecimalChars \cup {Underscore}
    /\ t[1] # Underscore /\ t[Len(t)] # Underscore
    /\ \A i \in 1..(Len(t) - 1) : ~(t[i] = Underscore /\ t[i + 1] = Underscore)
IsDigitChar(c) == c # Underscore
\* The digit values of a group, underscores left out.
DigitValues(t) ==
    LET kept == SelectSeq(t, IsDigitChar)
    IN  [i \in 1..Len(kept) |-> DigitValue(kept[i])]
\* The digits of the value: no leading zero, except for zero itself.
DropLeadingZeros(s) ==
    IF \A i \in 1..Len(s) : s[i] = 0 THEN <<0>>
    ELSE SubSeq(s, CHOOSE i \in 1..Len(s) : s[i] # 0 /\ \A j \in 1..(i - 1) : s[j] = 0, Len(s))
\* The whitespace int() skips around a literal: the information separators
\* U+001C..U+001F are not part of it.
IntWhitespace == Whitespace \ (28..31)
\* int(q_stripped): the literal is surrounding whitespace, an optional sign
\* and decimal digits of any script; anything else, or more digits than
\* sys.int_info.default_max_str_digits, is a ValueError, which the handler
\* does not catch.
int(s) ==
    LET t == RTrim(LTrim(s, IntWhitespace), IntWhitespace)
        signed == t # <<>> /\ Head(t) \in {Plus, Minus}
        body == IF signed THEN Tail(t) ELSE t
    IN  IF ~IsDigitGroup(body) THEN Unhandled
        ELSE LET digits == DigitValues(body) IN
             IF Len(digits) > MaxStrDigits THEN Unhandled
             ELSE LET value == DropLeadingZeros(digits) IN
                  Ret(BigInt(signed /\ Head(t) = Minus /\ value # <<0>>, value))

IsSignatureLength_exclusive(s) == SigMinLen < Len(s) /\ Len(s) < SigMaxLen
\* 80 <= len(q_stripped) <= 100 (line 175)
IsSignatureLength(s) == SigMinLen <= Len(s) /\ Len(s) <= SigMaxLen

----------------------------------------------------------------------------
(* Arithmetic of solana_stats (lines 92-96, 107).                          *)

RECURSIVE SumField(_, _)
\* sum(s.get(key, 0) for s in samples)
SumField(samples, key) ==
    IF samples = <<>> THEN 0
    ELSE Get(Head(samples), key, Num(0)).val + SumField(Tail(samples), key)

RECURSIVE PowMod(_, _, _)
PowMod(b, e, m) == IF e = 0 THEN 1 % m ELSE (b * PowMod(b, e - 1, m)) % m
RECURSIVE Log2Floor(_, _)
\* The exponent e with 2^e <= p/q < 2^(e+1), for p, q > 0.
Log2Floor(p, q) ==
    IF p < q THEN Log2Floor(2 * p, q) - 1
    ELSE IF 2 * q <= p THEN Log2Floor(p, 2 * q) + 1
    ELSE 0

\* round(n / d, 2) in hundredths, for n >= 0 and d > 0.  n / d is the double
\* nearest to the quotient and round() rounds that double correctly.  Off a
\* decimal tie the double rounds as the quotient does.  On a tie the quotient
\* is an odd number of two-hundredths, p/8, p/40 or p/200 in lowest terms:
\* p/8 is a double and goes to the even hundredth; otherwise the double lies
\* above or below the tie as the division by 5 or 25 rounded its significand
\* up or down, and round() follows it.
Round2(n, d) ==
    LET fl == (100 * n) \div d
        rem == (100 * n) % d
        odd == 2 * fl + 1
        m == IF odd % 25 = 0 THEN 1 ELSE IF odd % 5 = 0 THEN 5 ELSE 25
        p == odd \div (25 \div m)
        e == Log2Floor(p, 8 * m)
        \* remainder of the significand p * 2^(MantissaBits-1-e) / (8 * m)
        r == ((p % m) * PowMod(2, MantissaBits - 4 - e, m)) % m
    IN  IF 2 * rem > d THEN fl + 1
        ELSE IF 2 * rem < d THEN fl
        ELSE IF m = 1 THEN (IF fl % 2 = 0 THEN fl ELSE fl + 1)
        ELSE IF 2 * r > m THEN fl + 1 ELSE fl

Tps_zeroWhenNoSeconds(samples) ==
    IF ~Truthy(samples) THEN Ret(Null)
    ELSE IF samples.kind # "arr" \/ \E i \in 1..Len(samples.val) : samples.val[i].kind # "obj"
    THEN Unhandled
    ELSE LET tx == SumField(samples.val, "numTransactions")
             secs == SumField(samples.val, "samplePeriodSecs")
         IN  IF secs = 0 THEN Ret(Frac(0, 100)) ELSE Ret(Frac(Round2(tx, secs), 100))

\* lines 91-96: tps from the (already "or []"-defaulted) samples
Tps(samples) ==
    IF ~Truthy(samples) THEN Ret(Null)
    ELSE IF samples.kind # "arr" \/ \E i \in 1..Len(samples.val) : samples.val[i].kind # "obj"
    THEN Unhandled                                  \* s.get on a non-dict
    ELSE LET tx == SumField(samples.val, "numTransactions")
             secs == SumField(samples.val, "samplePeriodSecs")
         IN  IF secs = 0 THEN Ret(Null) ELSE Ret(Frac(Round2(tx, secs), 100))

\* lines 98-101: len(current) + len(delinquent)
Validators(vote_accounts) ==
    IF vote_accounts.kind # "obj" THEN Unhandled
    ELSE LET current == PyLen(Get(vote_accounts, "current", EmptyArr))
             delinquent == PyLen(Get(vote_accounts, "delinquent", EmptyArr))
         IN  IF current.exc # "none" \/ delinquent.exc # "none" THEN Unhandled
             ELSE Ret(Num(current.val.val + delinquent.val.val))

Max(a, b) == IF a >= b THEN a ELSE b

\* line 107: max(0, (height2 or height1) - (height1 or 0))
RecentBlocks(height1, height2) ==
    LET a == Or(height2, height1)
        b == Or(height1, Num(0))
    IN  IF a.kind = "num" /\ b.kind = "num" THEN Ret(Num(Max(0, a.val - b.val)))
        ELSE Unhandled                              \* None - int, str - int

\* fee / 1_000_000_000 (line 181) and round(fee / 1_000_000_000, 9) (line 149):
\* a whole number of lamports over 1e9 has at most 9 decimals, so rounding
\* to 9 places keeps it.
Sol(lamports) == Frac(lamports, LAMPORTS_PER_SOL)

----------------------------------------------------------------------------
(* What the endpoint may return as the result of each method.              *)

SeqsUpTo(S, n) == UNION { [1..k -> S] : k \in 0..n }

SlotValues == { Num(7) }
HeightValues == { Num(n) : n \in 0..MaxHeight }

\* Samples over long windows: 40 s and 1800 s (30 samples of 60 s add up to 1800).
LongSamples ==
    { Obj([numTransactions |-> Num(1), samplePeriodSecs |-> Num(40)]),
      Obj([numTransactions |-> Num(9), samplePeriodSecs |-> Num(1800)]),
      Obj([numTransactions |-> Num(1000017), samplePeriodSecs |-> Num(1800)]) }
SampleValues ==
    { Obj(Opt("numTransactions", t) @@ Opt("samplePeriodSecs", p)) :
        t \in {Absent} \cup { Num(n) : n \in 0..MaxTx },
        p \in {Absent} \cup { Num(n) : n \in 0..MaxSecs } }
    \cup LongSamples
SamplesValues == { Arr(s) : s \in SeqsUpTo(SampleValues, MaxSamples) }

ValidatorLists ==
    {Absent} \cup { Arr(Rep(Obj([votePubkey |-> Str("v")]), n)) : n \in 0..MaxValidators }
VoteAccountsValues ==
    { Obj(Opt("current", c) @@ Opt("delinquent", d)) :
        c \in ValidatorLists, d \in ValidatorLists }

SigNames == {"sigA", "sigB"}
SigEntries == { Obj([signature |-> Str(n)]) : n \in SigNames }
ListingValues == { Arr(s) : s \in SeqsUpTo(SigEntries, MaxListed) }

Tx(slot, meta, instructions) ==
    Obj(Opt("slot", slot) @@ Opt("meta", meta)
        @@ ("transaction" :> Obj([message |-> Obj([instructions |-> Arr(instructions)])])))
TxValues ==
    { Tx(Num(5), Obj([fee |-> Num(5000), err |-> Null]), <<Obj([programIdIndex |-> Num(2)])>>),
      Tx(Num(5), Obj([fee |-> Num(7000), err |-> Obj([InstructionError |-> Num(0)])]),
         <<Obj([programIdIndex |-> Num(2)])>>),
      Tx(Num(6), Obj([err |-> Null]), <<Obj([programId |-> Str("ProgA")])>>),
      Tx(Num(6), Null, <<Obj([programIdIndex |-> Num(2)])>>),
      Tx(Absent, Absent, <<>>),
      EmptyObj }

BlockValues ==
    { Obj([blockhash |-> Str("h")] @@ Opt("transactions", t)) :
        t \in {Absent} \cup { Arr(Rep(EmptyObj, n)) : n \in 0..MaxBlockTx } }
    \cup {EmptyObj}

\* getBalance of a Solana endpoint wraps the lamports in {context, value};
\* the bare number is what the handler expects.
BalanceValues ==
    { Num(0), Num(5000),
      Obj([context |-> Obj([slot |-> Num(1)]), value |-> Num(5000)]) }

\* The ASCII digit n and the letters of the queries.
D(n) == 48 + n
Letter(c) == CASE c = "a" -> 97 [] c = "b" -> 98

\* Queries of the search route (min_length = 2 before stripping).
Queries ==
    { <<D(1), D(2)>>, <<32, D(7), 32>>, <<D(0), D(0), D(7)>>, <<D(0), D(0)>>,
      <<9, D(1), D(2)>>,                    \* tab
      <<D(1), D(2), 10>>,                   \* line feed
      <<28, D(1), D(2)>>,                   \* U+001C file separator
      <<160, D(7), 12288>>,                 \* no-break and ideographic space
      <<8203, D(1), D(2)>>,                 \* U+200B zero width space
      <<1635, 1635>>,                       \* Arabic-Indic 33
      <<65297, 65298>>,                     \* fullwidth 12
      <<D(0), 1635>>,
      Rep(D(1), 32), Rep(D(9), SigMinLen), Rep(D(9), SigMaxLen),
      Rep(D(9), MaxStrDigits), Rep(D(9), MaxStrDigits + 1),
      <<178, 178>>, <<179, 179>>,           \* superscript two, three
      <<D(1), 178>>,
      <<Letter("a"), Letter("b")>>, <<32, 32>>, <<D(1), Letter("a")>>, <<D(1), 32, D(2)>>,
      Rep(Letter("a"), SigMinLen - 1), Rep(Letter("a"), SigMinLen),
      <<32>> \o Rep(Letter("a"), SigMaxLen) \o <<32>>,
      Rep(Letter("a"), SigMaxLen + 1) }

\* Records given to the labeler: well-formed and malformed.
ProgramIdValues == { Absent, Null, Str(""), Str("ProgA"), Num(3) }
ProgramIdIndexValues == { Absent, Num(2), Str(""), Str("IdxB") }
InstructionValues ==
    { Null, Num(7) }
    \cup { Obj(Opt("programId", p) @@ Opt("programIdIndex", x)) :
             p \in ProgramIdValues, x \in ProgramIdIndexValues }
InstructionsValues ==
    { Absent, Null, Num(5), Str("abc"), Obj([a |-> Null]) }
    \cup { EmptyArr }
    \cup { Arr(<<first>> \o Rep(other, n)) :
             first \in InstructionValues,
             other \in { Null, Obj([programId |-> Str("ProgC")]) },
             n \in 0..(MaxInstr - 1) }
MessageValues ==
    { Absent, Null, Num(1) } \cup { Obj(Opt("instructions", i)) : i \in InstructionsValues }
TransactionValues ==
    { Absent, Null, Arr(<<Str("AQ=="), Str("base64")>>) }
    \cup { Obj(Opt("message", m)) : m \in MessageValues }
MetaValues ==
    { Absent, Null, Num(1), EmptyObj, Obj([err |-> Null]),
      Obj([err |-> Obj([InstructionError |-> Num(0)])]) }
RawTransactions ==
    { Null, Str("tx"), EmptyArr }
    \cup { Obj(Opt("transaction", t) @@ Opt("meta", m)) :
             t \in TransactionValues, m \in MetaValues }

----------------------------------------------------------------------------
(* Results built by the handlers.                                          *)

Min(a, b) == IF a <= b THEN a ELSE b

Slice_all(s, n) == s
\* sigs[:limit] (line 143)
Slice(s, n) == SubSeq(s, 1, Min(n, Len(s)))

\* lines 148-155: the summary of one fetched transaction
Item(signature, tx) ==
    IF tx.kind # "obj" THEN Unhandled
    ELSE LET meta == Or(Get(tx, "meta", Null), EmptyObj) IN
    IF meta.kind # "obj" THEN Unhandled
    ELSE LET fee_lamports == Get(meta, "fee", Num(0)) IN
    IF fee_lamports.kind # "num" THEN Unhandled
    ELSE Ret(Obj([sig |-> signature,
                  slot |-> Get(tx, "slot", Null),
                  fee |-> Sol(fee_lamports.val),
                  type |-> Str(_program_label(tx))]))

\* line 172
SlotResult(slot, block) ==
    IF ~Truthy(block)
    THEN Ret(Obj([kind |-> Str("slot"), slot |-> slot, txCount |-> Num(0)]))
    ELSE IF block.kind # "obj" THEN Unhandled
    ELSE LET n == PyLen(Get(block, "transactions", EmptyArr)) IN
         IF n.exc # "none" THEN Unhandled
         ELSE Ret(Obj([kind |-> Str("slot"), slot |-> slot, txCount |-> n.val]))

\* lines 181-182
SignatureResult(q_stripped, tx) ==
    IF tx.kind # "obj" THEN Unhandled
    ELSE LET meta == Or(Get(tx, "meta", Null), EmptyObj) IN
    IF meta.kind # "obj" THEN Unhandled
    ELSE LET fee == Get(meta, "fee", Num(0)) IN
    IF fee.kind # "num" THEN Unhandled
    ELSE Ret(Obj([kind |-> Str("signature"),
                  signature |-> q_stripped,
                  slot |-> Get(tx, "slot", Null),
                  fee |-> Sol(fee.val),
                  ok |-> Bool(Get(meta, "err", Null) = Null)]))

\* [s.get("signature") for s in (sigs or [])] (line 192)
SignaturesOf(sigs) ==
    LET l == Or(sigs, EmptyArr) IN
    IF l.kind # "arr" \/ \E i \in 1..Len(l.val) : l.val[i].kind # "obj" THEN Unhandled
    ELSE Ret(Arr([i \in 1..Len(l.val) |-> Get(l.val[i], "signature", Null)]))

\* lines 188-193
AddressResult(q_stripped, bal, sigs) ==
    LET b == Or(bal, Num(0))
        signatures == SignaturesOf(sigs)
    IN  IF b.kind # "num" THEN Unhandled            \* dict / int, str / int
        ELSE IF signatures.exc # "none" THEN Unhandled
        ELSE Ret(Obj([kind |-> Str("address"),
                      address |-> q_stripped,
                      balance |-> Sol(b.val),
                      signatures |-> signatures.val]))

----------------------------------------------------------------------------
(* The state machine.                                                      *)

NoResponse == Response("none", NotJson)

Idle ==
    /\ route = "idle"
    /\ pc = "idle"
    /\ frame = <<>>
    /\ calls = <<>>
    /\ last = NoResponse
    /\ status = 0
    /\ response = Null

Init ==
    /\ upstream = "conformant"
    /\ Idle
    /\ raw = Null
    /\ label = _program_label(Null)

InitRaw ==
    /\ upstream = "arbitrary"
    /\ Idle
    /\ raw = Null
    /\ label = _program_label(Null)

\* rpc_call(method, ...) is issued and answered by resp.
Issue(method, resp) ==
    /\ calls' = Append(calls, method)
    /\ last' = resp

\* The request ends: a payload, an HTTPException or an uncaught exception.
Finish(out) ==
    /\ pc' = "done"
    /\ status' = out.code
    /\ response' = out.val

Continue(next) ==
    /\ pc' = next
    /\ UNCHANGED <<status, response>>

\* ------------------------------------------------------------ solana_stats

StartStats ==
    /\ route = "idle"
    /\ route' = "stats"
    /\ pc' = "getSlot"
    /\ frame' = [slot |-> Null, tps |-> Null, validators |-> Null, height1 |-> Null]
    /\ UNCHANGED <<upstream, calls, last, status, response, raw, label>>

StatsGetSlot ==
    /\ route = "stats" /\ pc = "getSlot"
    /\ \E resp \in Responses(SlotValues) :
         LET out == rpc_call(resp) IN
         /\ Issue("getSlot", resp)
         /\ IF out.exc # "none"
            THEN Finish(out) /\ UNCHANGED frame
            ELSE Continue("getRecentPerformanceSamples")
                 /\ frame' = [frame EXCEPT !.slot = out.val]
    /\ UNCHANGED <<upstream, route, raw, label>>

StatsGetSamples ==
    /\ route = "stats" /\ pc = "getRecentPerformanceSamples"
    /\ \E resp \in Responses(SamplesValues) :
         LET out == rpc_call(resp)
             tps == IF out.exc # "none" THEN out ELSE Tps(Or(out.val, EmptyArr))
         IN
         /\ Issue("getRecentPerformanceSamples", resp)
         /\ IF tps.exc # "none"
            THEN Finish(tps) /\ UNCHANGED frame
            ELSE Continue("getVoteAccounts")
                 /\ frame' = [frame EXCEPT !.tps = tps.val]
    /\ UNCHANGED <<upstream, route, raw, label>>

StatsGetVoteAccounts ==
    /\ route = "stats" /\ pc = "getVoteAccounts"
    /\ \E resp \in Responses(VoteAccountsValues) :
         LET out == rpc_call(resp)
             validators == IF out.exc # "none" THEN out
                           ELSE Validators(Or(out.val, EmptyObj))
         IN
         /\ Issue("getVoteAccounts", resp)
         /\ IF validators.exc # "none"
            THEN Finish(validators) /\ UNCHANGED frame
            ELSE Continue("getBlockHeight1")
                 /\ frame' = [frame EXCEPT !.validators = validators.val]
    /\ UNCHANGED <<upstream, route, raw, label>>

StatsGetBlockHeight1 ==
    /\ route = "stats" /\ pc = "getBlockHeight1"
    /\ \E resp \in Responses(HeightValues) :
         LET out == rpc_call(resp) IN
         /\ Issue("getBlockHeight", resp)
         /\ IF out.exc # "none"
            THEN Finish(out) /\ UNCHANGED frame
            ELSE Continue("getBlockHeight2")
                 /\ frame' = [frame EXCEPT !.height1 = out.val]
    /\ UNCHANGED <<upstream, route, raw, label>>

StatsGetBlockHeight2 ==
    /\ route = "stats" /\ pc = "getBlockHeight2"
    /\ \E resp \in Responses(HeightValues) :
         LET out == rpc_call(resp)
             recent_blocks == IF out.exc # "none" THEN out
                              ELSE RecentBlocks(frame.height1, out.val)
         IN
         /\ Issue("getBlockHeight", resp)
         /\ IF recent_blocks.exc # "none"
            THEN Finish(recent_blocks)
            ELSE Finish(Ret(Obj([tps |-> frame.tps,
                                 slot |-> frame.slot,
                                 validators |-> frame.validators,
                                 recentBlocks |-> recent_blocks.val])))
    /\ UNCHANGED <<upstream, route, frame, raw, label>>

\* ----------------------------------------------------- recent_transactions

StartRecent ==
    /\ route = "idle"
    /\ \E limit \in 1..MaxLimit :
         frame' = [limit |-> limit, sigs |-> <<>>, i |-> 0, items |-> <<>>, fetched |-> <<>>]
    /\ route' = "recent"
    /\ pc' = "getSignaturesForAddress"
    /\ UNCHANGED <<upstream, calls, last, status, response, raw, label>>

RecentGetSignatures ==
    /\ route = "recent" /\ pc = "getSignaturesForAddress"
    /\ \E resp \in Responses(ListingValues) :
         LET out == rpc_call(resp)
             sigs == Or(out.val, EmptyArr)
         IN
         /\ Issue("getSignaturesForAddress", resp)
         /\ IF out.exc # "none" THEN Finish(out) /\ UNCHANGED frame
            ELSE IF ~Truthy(sigs)
            THEN Finish(Ret(Obj([items |-> EmptyArr]))) /\ UNCHANGED frame
            ELSE IF sigs.kind # "arr" \/ sigs.val[1].kind # "obj"
            THEN Finish(Unhandled) /\ UNCHANGED frame       \* s.get on a non-dict
            ELSE Continue("getTransaction")
                 /\ frame' = [frame EXCEPT !.sigs = sigs.val, !.i = 1]
    /\ UNCHANGED <<upstream, route, raw, label>>

\* One iteration of the loop of lines 143-155, and the return after the last.
RecentGetTransaction ==
    /\ route = "recent" /\ pc = "getTransaction"
    /\ \E resp \in Responses(TxValues) :
         LET todo == Slice(frame.sigs, frame.limit)
             signature == Get(todo[frame.i], "signature", Null)
             out == rpc_call(resp)
             item == IF out.exc # "none" THEN out
                     ELSE IF ~Truthy(out.val) THEN Ret(Null)
                     ELSE Item(signature, out.val)
             items == IF item.val = Null THEN frame.items ELSE Append(frame.items, item.val)
         IN
         /\ Issue("getTransaction", resp)
         /\ IF item.exc # "none" THEN Finish(item) /\ UNCHANGED frame
            ELSE /\ frame' = [frame EXCEPT !.items = items,
                                           !.fetched = Append(@, out.val),
                                           !.i = @ + 1]
                 /\ IF frame.i = Len(todo)
                    THEN Finish(Ret(Obj([items |-> Arr(items)])))
                    ELSE IF todo[frame.i + 1].kind # "obj"
                    THEN Finish(Unhandled)
                    ELSE Continue("getTransaction")
    /\ UNCHANGED <<upstream, route, raw, label>>

\* ------------------------------------------------------------------ search

StartSearch ==
    /\ route = "idle"
    /\ route' = "search"
    /\ \E q \in Queries :
         LET q_stripped == strip(q)
             slot == int(q_stripped)
         IN
         IF isdigit(q_stripped)
         THEN /\ frame' = [q |-> q, q_stripped |-> q_stripped, slot |-> slot.val, bal |-> Null]
              /\ IF slot.exc # "none" THEN Finish(slot) ELSE Continue("getBlock")
         ELSE /\ frame' = [q |-> q, q_stripped |-> q_stripped, slot |-> Null, bal |-> Null]
              /\ IF IsSignatureLength(q_stripped)
                 THEN Continue("getTransaction")
                 ELSE Continue("getBalance")
    /\ UNCHANGED <<upstream, calls, last, raw, label>>

SearchGetBlock ==
    /\ route = "search" /\ pc = "getBlock"
    /\ \E resp \in Responses(BlockValues) :
         LET out == rpc_call(resp)
             block == IF out.exc = "HTTPException" THEN Null ELSE out.val
         IN
         /\ Issue("getBlock", resp)
         /\ IF out.exc = "Exception" THEN Finish(out)
            ELSE Finish(SlotResult(frame.slot, block))
    /\ UNCHANGED <<upstream, route, frame, raw, label>>

SearchGetTransaction ==
    /\ route = "search" /\ pc = "getTransaction"
    /\ \E resp \in Responses(TxValues) :
         LET out == rpc_call(resp)
             tx == IF out.exc = "HTTPException" THEN Null ELSE out.val
         IN
         /\ Issue("getTransaction", resp)
         /\ IF out.exc = "Exception" THEN Finish(out)
            ELSE IF Truthy(tx) THEN Finish(SignatureResult(Str(frame.q_stripped), tx))
            ELSE Continue("getBalance")
    /\ UNCHANGED <<upstream, route, frame, raw, label>>

SearchGetBalance ==
    /\ route = "search" /\ pc = "getBalance"
    /\ \E resp \in Responses(BalanceValues) :
         LET out == rpc_call(resp) IN
         /\ Issue("getBalance", resp)
         /\ IF out.exc = "HTTPException" THEN Finish(HTTPException(404)) /\ UNCHANGED frame
            ELSE IF out.exc = "Exception" THEN Finish(out) /\ UNCHANGED frame
            ELSE Continue("getSignaturesForAddress")
                 /\ frame' = [frame EXCEPT !.bal = out.val]
    /\ UNCHANGED <<upstream, route, raw, label>>

SearchGetSignatures ==
    /\ route = "search" /\ pc = "getSignaturesForAddress"
    /\ \E resp \in Responses(ListingValues) :
         LET out == rpc_call(resp) IN
         /\ Issue("getSignaturesForAddress", resp)
         /\ IF out.exc = "HTTPException" THEN Finish(HTTPException(404))
            ELSE IF out.exc = "Exception" THEN Finish(out)
            ELSE Finish(AddressResult(Str(frame.q_stripped), frame.bal, out.val))
    /\ UNCHANGED <<upstream, route, frame, raw, label>>

\* The response is sent; the next request starts from nothing.
Respond ==
    /\ pc = "done"
    /\ route' = "idle"
    /\ pc' = "idle"
    /\ frame' = <<>>
    /\ calls' = <<>>
    /\ last' = NoResponse
    /\ status' = 0
    /\ response' = Null
    /\ UNCHANGED <<upstream, raw, label>>

\* The labeler applied to one record.
Labeler ==
    /\ \E tx \in RawTransactions :
         /\ raw' = tx
         /\ label' = _program_label(tx)
    /\ UNCHANGED <<upstream, route, pc, frame, calls, last, status, response>>

Next ==
    \/ StartStats \/ StatsGetSlot \/ StatsGetSamples \/ StatsGetVoteAccounts
    \/ StatsGetBlockHeight1 \/ StatsGetBlockHeight2
    \/ StartRecent \/ RecentGetSignatures \/ RecentGetTransaction
    \/ StartSearch \/ SearchGetBlock \/ SearchGetTransaction
    \/ SearchGetBalance \/ SearchGetSignatures
    \/ Respond

Spec == Init /\ [][Next]_vars
SpecRaw == InitRaw /\ [][Next]_vars
SpecLabel == Init /\ [][Labeler]_vars

----------------------------------------------------------------------------
(* Vocabulary of the properties, stated apart from the handlers' own       *)
(* operators.                                                              *)

Range(f) == { f[i] : i \in DOMAIN f }
Last(f) == f[Len(f)]
IsPrefix(a, b) == Len(a) <= Len(b) /\ a = SubSeq(b, 1, Len(a))
Abs(n) == IF n < 0 THEN -n ELSE n

\* The call was answered without a transport or RPC-level error.
Succeeded(resp) ==
    resp.net = "ok" /\ resp.body.kind = "obj" /\ "error" \notin DOMAIN resp.body.val
\* The result it carried; absent and null are the same to the caller.
ResultOf(resp) ==
    IF Succeeded(resp) /\ "result" \in DOMAIN resp.body.val
    THEN resp.body.val.result ELSE Null

DecimalQuery(s) == s # <<>> /\ \A i \in 1..Len(s) : s[i] \in DecimalChars
NotDigitOnly(s) == s = <<>> \/ \E i \in 1..Len(s) : s[i] \notin DigitChars
InSignatureRange(s) == Len(s) \in SigMinLen..SigMaxLen
FallThrough == <<"getTransaction", "getBalance", "getSignaturesForAddress">>

TxListLen(block) ==
    IF block.kind = "obj" /\ "transactions" \in DOMAIN block.val
    THEN Len(block.val.transactions.val) ELSE 0
MetaOf(tx) ==
    IF "meta" \in DOMAIN tx.val /\ tx.val.meta.kind = "obj" THEN tx.val.meta ELSE EmptyObj
FeeOf(tx) == IF "fee" \in DOMAIN MetaOf(tx).val THEN MetaOf(tx).val.fee.val ELSE 0
NoErrorRecorded(tx) == "err" \notin DOMAIN MetaOf(tx).val \/ MetaOf(tx).val.err = Null
HeightOrZero(h) == IF h.kind = "num" THEN h.val ELSE 0

----------------------------------------------------------------------------
\* C1: a search whose trimmed query is made of decimal digits only, of any
\* length, issues getBlock and nothing else and answers 200 with the slot
\* variant; txCount is the length of the block's transaction list, or 0 when
\* the block is absent or getBlock failed.
C1_DigitQueryIsSlot ==
    (route = "search" /\ DecimalQuery(frame.q_stripped)) =>
        /\ calls \in {<<>>, <<"getBlock">>}
        /\ pc \in {"getBlock", "done"}
        /\ pc = "done" =>
             /\ calls = <<"getBlock">>
             /\ status = 200
             /\ response = Obj([kind |-> Str("slot"),
                                slot |-> frame.slot,
                                txCount |-> Num(TxListLen(ResultOf(last)))])

SignatureVariant(q_stripped, tx) ==
    Obj([kind |-> Str("signature"),
         signature |-> Str(q_stripped),
         slot |-> IF "slot" \in DOMAIN tx.val THEN tx.val.slot ELSE Null,
         fee |-> Frac(FeeOf(tx), LAMPORTS_PER_SOL),
         ok |-> Bool(NoErrorRecorded(tx))])

\* C2 (as amended): for a query that is not digit-only and 80..100 long,
\* getTransaction is issued first; when it returns a transaction the answer
\* is the signature variant and no address call is made; when it fails or
\* returns no transaction the request goes on to getBalance and then
\* getSignaturesForAddress.  Outside that length no getTransaction is issued.
C2_SignatureThenAddress ==
    (route = "search" /\ NotDigitOnly(frame.q_stripped)) =>
        IF InSignatureRange(frame.q_stripped)
        THEN /\ IsPrefix(calls, FallThrough)
             /\ pc = "done" => calls # <<>>
             /\ calls = <<"getTransaction">> =>
                  IF Truthy(ResultOf(last))
                  THEN /\ pc = "done" /\ status = 200
                       /\ response = SignatureVariant(frame.q_stripped, ResultOf(last))
                  ELSE pc = "getBalance" /\ status = 0
        ELSE "getTransaction" \notin Range(calls)

\* A failed transaction with a fee, found for a query of exactly 80 characters.
C2_Witness ==
    /\ route = "search" /\ pc = "done" /\ status = 200
    /\ Len(frame.q_stripped) = SigMinLen /\ NotDigitOnly(frame.q_stripped)
    /\ calls = <<"getTransaction">>
    /\ response.val.ok = Bool(FALSE) /\ response.val.fee = Frac(7000, LAMPORTS_PER_SOL)

\* C2 as written: whenever the getTransaction call succeeds, the answer is
\* the signature variant and no address call follows.
C2_Original ==
    (route = "search" /\ NotDigitOnly(frame.q_stripped)) =>
        IF InSignatureRange(frame.q_stripped)
        THEN /\ IsPrefix(calls, FallThrough)
             /\ pc = "done" => calls # <<>>
             /\ calls = <<"getTransaction">> =>
                  IF Succeeded(last)
                  THEN pc = "done" /\ status = 200 /\ response.val.kind = Str("signature")
                  ELSE pc = "getBalance" /\ status = 0
        ELSE "getTransaction" \notin Range(calls)

\* C3: in the address step a failed getBalance gives 404 without calling
\* getSignaturesForAddress, a failed getSignaturesForAddress gives 404, and
\* when both succeed the answer is the address variant with the listed
\* signatures.
C3_AddressStep ==
    (route = "search" /\ pc = "done" /\ "getBalance" \in Range(calls)) =>
        IF Last(calls) = "getBalance"
        THEN ~Succeeded(last) /\ status = 404
        ELSE IF ~Succeeded(last) THEN status = 404
        ELSE /\ status = 200
             /\ response.val.kind = Str("address")
             /\ response.val.address = Str(frame.q_stripped)
             /\ Len(response.val.signatures.val) = Len(Or(ResultOf(last), EmptyArr).val)

\* C4: every finished request carries a success payload, a 502 or a 404.
C4_ExplicitOutcome ==
    pc = "done" => status \in {200, 502, 404}

\* C5: once both getBlockHeight calls are answered the stats request
\* succeeds with recentBlocks = max(0, height2 - height1), an absent height
\* counting as 0.
C5_RecentBlocks ==
    (route = "stats" /\ pc = "done" /\ Len(calls) = 5 /\ Succeeded(last)) =>
        /\ status = 200
        /\ response.val.recentBlocks =
             Num(Max(0, HeightOrZero(ResultOf(last)) - HeightOrZero(frame.height1)))

\* C6: after the performance samples are fetched, tps is absent exactly when
\* there are no samples or their periods sum to 0; otherwise it is the total
\* of numTransactions over the total of samplePeriodSecs, rounded to the
\* nearest hundredth (so 0 transactions over a positive period give 0).
C6_Tps ==
    (route = "stats" /\ Len(calls) = 2 /\ Succeeded(last)) =>
        LET r == ResultOf(last)
            S == IF r.kind = "arr" THEN r.val ELSE <<>>
            tx == SumField(S, "numTransactions")
            secs == SumField(S, "samplePeriodSecs")
            tps == frame.tps
        IN  /\ pc = "getVoteAccounts"
            /\ (tps = Null) <=> (S = <<>> \/ secs = 0)
            /\ tps # Null =>
                 /\ tps.kind = "frac" /\ tps.den = 100
                 /\ 2 * Abs(100 * tx - tps.val * secs) <= secs

\* Two samples with no transactions over a positive period: tps is 0, not absent.
C6_Witness ==
    /\ route = "stats" /\ pc = "getVoteAccounts"
    /\ ResultOf(last).kind = "arr" /\ Len(ResultOf(last).val) = 2
    /\ SumField(ResultOf(last).val, "samplePeriodSecs") > 0
    /\ frame.tps = Frac(0, 100)

RECURSIVE Kept(_, _, _)
\* The signatures, among the first k listed, whose detail fetch returned a transaction.
Kept(sigs, fetched, k) ==
    IF k = 0 THEN <<>>
    ELSE IF Truthy(fetched[k]) THEN Append(Kept(sigs, fetched, k - 1), sigs[k].val.signature)
    ELSE Kept(sigs, fetched, k - 1)

\* C7: recentTransactions issues one getSignaturesForAddress call and then at
\* most `limit` getTransaction calls, one per listed signature in order; an
\* empty or absent listing ends the request with no items; the items are, in
\* listing order, the signatures among the first `limit` whose detail fetch
\* returned a transaction, so never more than `limit`.
C7_RecentTransactions ==
    route = "recent" =>
        LET n == Min(frame.limit, Len(frame.sigs)) IN
        /\ calls = <<>> \/ Head(calls) = "getSignaturesForAddress"
        /\ \A k \in 2..Len(calls) : calls[k] = "getTransaction"
        /\ Len(calls) <= 1 + n
        /\ Len(frame.fetched) <= n
        /\ [k \in 1..Len(frame.items) |-> frame.items[k].val.sig]
             = Kept(frame.sigs, frame.fetched, Len(frame.fetched))
        /\ Len(frame.items) <= frame.limit
        /\ (pc = "done" /\ status = 200) =>
             /\ response = Obj([items |-> Arr(frame.items)])
             /\ Len(frame.fetched) = n
             /\ Len(calls) = 1 + n
        /\ (Len(calls) = 1 /\ Succeeded(last) /\ ~Truthy(ResultOf(last))) =>
             pc = "done" /\ status = 200 /\ response = Obj([items |-> EmptyArr])

\* More signatures listed than the limit; the first detail is absent and
\* skipped, the second is returned.
C7_Witness ==
    /\ route = "recent" /\ pc = "done" /\ status = 200
    /\ frame.limit = 2 /\ Len(frame.sigs) > frame.limit
    /\ frame.fetched[1] = Null /\ Truthy(frame.fetched[2])
    /\ Len(response.val.items.val) = 1

\* C8: a search request issues at least 1 and at most 2 upstream calls on
\* every path (slot, signature, signature falling through to address,
\* address): never more than 2, and at least 1 once the request has ended.
C8_OneToTwoCalls ==
    route = "search" =>
        /\ Len(calls) <= 2
        /\ pc = "done" => Len(calls) >= 1

HasFirstInstruction(tx) ==
    /\ tx.kind = "obj"
    /\ "transaction" \in DOMAIN tx.val /\ tx.val.transaction.kind = "obj"
    /\ "message" \in DOMAIN tx.val.transaction.val
    /\ tx.val.transaction.val.message.kind = "obj"
    /\ "instructions" \in DOMAIN tx.val.transaction.val.message.val
    /\ tx.val.transaction.val.message.val.instructions.kind = "arr"
    /\ tx.val.transaction.val.message.val.instructions.val # <<>>
    /\ tx.val.transaction.val.message.val.instructions.val[1].kind = "obj"
FirstInstruction(tx) == tx.val.transaction.val.message.val.instructions.val[1].val
HasString(f, key) == key \in DOMAIN f /\ f[key].kind = "str"
ProgramStrings(tx) ==
    IF HasFirstInstruction(tx)
    THEN { FirstInstruction(tx)[k].val :
             k \in { j \in {"programId", "programIdIndex"} : HasString(FirstInstruction(tx), j) } }
    ELSE {}

\* C9 (as amended): the label is always a string program identifier of the
\* first instruction, "Success", "Error" or "Transaction"; a non-empty string
\* programId is the label whatever the status, and so is a string
\* programIdIndex when the instruction has no programId.
C9_Label ==
    /\ label \in {"Success", "Error", "Transaction"} \cup ProgramStrings(raw)
    /\ HasFirstInstruction(raw) =>
         LET f == FirstInstruction(raw) IN
         /\ (HasString(f, "programId") /\ f.programId.val # "") => label = f.programId.val
         /\ ("programId" \notin DOMAIN f /\ HasString(f, "programIdIndex"))
              => label = f.programIdIndex.val

\* A string programId labels a record whose meta is null.
C9_Witness ==
    /\ HasFirstInstruction(raw)
    /\ HasString(FirstInstruction(raw), "programId")
    /\ "meta" \in DOMAIN raw.val /\ raw.val.meta = Null
    /\ label = "ProgA"

\* C9 as written: any string programId, the empty one included, is the label.
C9_Original ==
    /\ label \in {"Success", "Error", "Transaction"} \cup ProgramStrings(raw)
    /\ HasFirstInstruction(raw) =>
         LET f == FirstInstruction(raw) IN
         /\ HasString(f, "programId") => label = f.programId.val
         /\ ("programId" \notin DOMAIN f /\ HasString(f, "programIdIndex"))
              => label = f.programIdIndex.val

StatusPresent(tx) ==
    /\ tx.kind = "obj"
    /\ "meta" \in DOMAIN tx.val /\ tx.val.meta.kind = "obj"
    /\ "err" \in DOMAIN tx.val.meta.val

\* C10: a record with none of the expected fields is labelled "Transaction";
\* "Success" and "Error" are given only when the record carries an execution
\* status.
C10_FallbackLabel ==
    /\ raw = EmptyObj => label = "Transaction"
    /\ label \in {"Success", "Error"} => StatusPresent(raw)

====
